---- MODULE Spec2Model ----
(***************************************************************************)
(* State-machine model of the bulk ingestion pipeline of                   *)
(* src/cargador_optimizado.py: main() creating a FacturasZipLoaderOptimizado*)
(* and running run_complete_process() inside try/except/finally.           *)
(*                                                                         *)
(* One run is modelled: the archive (the input) is chosen in Init, the     *)
(* outcomes of the calls into the store and the file system are chosen by  *)
(* the actions.  The history variables (dispatched, index_log, decode_log, *)
(* rejected, stats_log, discovered) record calls the code makes; the code  *)
(* itself keeps no such record.                                            *)
(*                                                                         *)
(* Spec is main on any archive within the bounds.  SpecConfigured adds a   *)
(* batch capacity set in the environment; SpecBatching and SpecIndex run   *)
(* against a store that accepts every document, on the archives of the     *)
(* batching scenario and on archives chosen for the indexes; SpecAnalyze   *)
(* applies analyze_zip_structure alone to listings of every kind of name.  *)
(***************************************************************************)
EXTENDS Integers, Sequences, FiniteSets, TLC

(* ------------------------------ bounds -------------------------------- *)

\* Longest archive listing (number of entries of the ZIP file).
MaxEntries == 3

\* Largest batch capacity tried; stands for batch_size (8000 in the source).
MaxBatchSize == 2

(* ------------------------------ strings ------------------------------- *)

\* A folder name is a sequence of characters, so that str.replace and
\* str.lower act on it character by character.
F_1_upper == <<"F", " ", "1">>
f_1_lower == <<"f", "_", "1">>
root == <<"r", "o", "o", "t">>

\* str.lower() on one character of the alphabet in use.
lower(c) ==
    CASE c = "F" -> "f"
      [] c = "R" -> "r"
      [] OTHER -> c

\* str.replace(' ', '_') on one character.
replace_space(c) == IF c = " " THEN "_" ELSE c

\* folder_name.replace(' ', '_').lower()
collection_name_of(folder_name) ==
    [i \in DOMAIN folder_name |-> lower(replace_space(folder_name[i]))]

(* ------------------------------ archive ------------------------------- *)

\* The directories an entry may be in: two whose names differ and whose
\* collection names are the same.
DirChoices == {<<F_1_upper>>, <<f_1_lower>>}

\* What the bytes of a data entry are.
\*   dict      a JSON object with business fields
\*   dictprov  a JSON object that itself defines the two provenance keys
\*   empty     a JSON value that is falsy in Python ({} here)
\*   array     a truthy JSON value that is no object (a non-empty array)
\*   malformed text that is no JSON            (json.JSONDecodeError)
\*   badutf8   bytes that are no UTF-8 text    (UnicodeDecodeError)
\*   missing   listed, but not in the open archive (KeyError)
Kinds == {"dict", "dictprov", "empty", "array", "malformed", "badutf8", "missing"}

\* A file name inside the archive: its directories, its base name (the
\* position in the listing, so names are distinct) and its ending.
FileName(dirs, base, ext) == [dirs |-> dirs, base |-> base, ext |-> ext]

\* The kind tried in every directory; the directory F_1_upper holds
\* entries of every kind.
CommonKinds == {"dict"}

KindsIn(dirs) == IF dirs = <<F_1_upper>> THEN Kinds ELSE CommonKinds

\* The entries that may stand at position i of the listing: a data entry,
\* or an entry whose name does not end in .json.
EntryChoices(i) ==
    UNION {{[filename |-> FileName(d, i, "json"), kind |-> k] : k \in KindsIn(d)} :
              d \in DirChoices}
    \cup {[filename |-> FileName(<<F_1_upper>>, i, "txt"), kind |-> "dict"]}

\* All listings of length n.
RECURSIVE Listings(_)
Listings(n) ==
    IF n = 0 THEN {<<>>}
    ELSE {Append(l, e) : l \in Listings(n - 1), e \in EntryChoices(n)}

Archives == UNION {Listings(n) : n \in 0..MaxEntries}

BatchSizes == 1..MaxBatchSize

(* ------------------------------ decoding ------------------------------ *)

\* Python's None.
None == [type |-> "None"]

\* Values the provenance keys hold when the source document defines them.
foreign_file == FileName(<<>>, 0, "json")
foreign_folder == <<"x">>

\* json.load on the bytes of an entry: the value, or the exception raised.
json_load(kind) ==
    CASE kind = "dict" ->
           [exc |-> "none",
            value |-> [type |-> "dict",
                       fields |-> [factura_num |-> "FV-1", fecha_hora |-> "t1"]]]
      [] kind = "dictprov" ->
           [exc |-> "none",
            value |-> [type |-> "dict",
                       fields |-> [_source_file |-> foreign_file,
                                   _source_folder |-> foreign_folder]]]
      [] kind = "empty" ->
           [exc |-> "none", value |-> [type |-> "dict", fields |-> <<>>]]
      [] kind = "array" ->
           [exc |-> "none", value |-> [type |-> "list", fields |-> <<1>>]]
      [] kind = "malformed" -> [exc |-> "JSONDecodeError", value |-> None]
      [] kind = "badutf8" -> [exc |-> "UnicodeDecodeError", value |-> None]

\* self.zip_file.open(file_path) followed by json.load: a name that is not
\* in the open archive raises KeyError.
zip_open_and_load(entry) ==
    IF entry.kind = "missing"
    THEN [exc |-> "KeyError", value |-> None]
    ELSE json_load(entry.kind)

\* The exceptions load_json_fast catches.
CaughtByLoad == {"JSONDecodeError", "KeyError", "FileNotFoundError"}

\* load_json_fast: None when the archive is not open or a caught exception
\* was raised; any other exception leaves the method.
load_json_fast(zipf, entry) ==
    IF zipf = "None" THEN [exc |-> "none", value |-> None]
    ELSE LET r == zip_open_and_load(entry)
         IN IF r.exc \in CaughtByLoad
            THEN [exc |-> "none", value |-> None]
            ELSE r

\* Python's truth value of a decoded value (`if json_data:`).
truthy(v) ==
    CASE v.type = "None" -> FALSE
      [] v.type = "dict" -> DOMAIN v.fields # {}
      [] v.type = "list" -> Len(v.fields) > 0

\* Whether `json_data[key] = value` is defined for the value (a dict).
supports_item_assignment(v) == v.type = "dict"

ProvenanceKeys == {"_source_file", "_source_folder"}

\* Mutant: the provenance keys are written only when the source document
\* does not define them (dict.setdefault).
add_metadata_setdefault(fields, file_path, folder_name) ==
    [k \in DOMAIN fields \cup ProvenanceKeys |->
        IF k \in DOMAIN fields THEN fields[k]
        ELSE IF k = "_source_file" THEN file_path ELSE folder_name]

\* json_data['_source_file'] = file_path; json_data['_source_folder'] = folder_name
add_metadata(fields, file_path, folder_name) ==
    [k \in DOMAIN fields \cup ProvenanceKeys |->
        IF k = "_source_file" THEN file_path
        ELSE IF k = "_source_folder" THEN folder_name
        ELSE fields[k]]

(* -------------------------- archive analysis --------------------------- *)

\* file_info.filename.endswith('.json') and not file_info.is_dir()
is_data_entry(filename) == filename.ext = "json"

\* parts[0] when the name has a separator, 'root' otherwise.
folder_of(filename) ==
    IF Len(filename.dirs) > 0 THEN filename.dirs[1] ELSE root

\* Mutant: folder_structure[folder_name] = [filename]
dict_append_overwrite(structure, folder_name, item) ==
    IF \E j \in DOMAIN structure : structure[j].name = folder_name
    THEN [j \in DOMAIN structure |->
            IF structure[j].name = folder_name
            THEN [structure[j] EXCEPT !.files = <<item>>]
            ELSE structure[j]]
    ELSE Append(structure, [name |-> folder_name, files |-> <<item>>])

\* folder_structure[folder_name].append(filename) on an insertion-ordered
\* mapping, held as a sequence of [name, files].
dict_append(structure, folder_name, item) ==
    IF \E j \in DOMAIN structure : structure[j].name = folder_name
    THEN [j \in DOMAIN structure |->
            IF structure[j].name = folder_name
            THEN [structure[j] EXCEPT !.files = Append(@, item)]
            ELSE structure[j]]
    ELSE Append(structure, [name |-> folder_name, files |-> <<item>>])

RECURSIVE analyze_from(_, _, _)
analyze_from(listing, i, structure) ==
    IF i > Len(listing) THEN structure
    ELSE analyze_from(listing, i + 1,
            IF is_data_entry(listing[i].filename)
            THEN dict_append(structure, folder_of(listing[i].filename), i)
            ELSE structure)

\* analyze_zip_structure: partition name -> entries, in listing order.  An
\* entry is held by its position in the listing; its name is
\* listing[i].filename.
analyze_zip_structure(listing) == analyze_from(listing, 1, <<>>)

(* ------------------------------- state -------------------------------- *)

VARIABLES
    archive,            \* the listing of the ZIP file at zip_path, with contents
    batch_size,         \* process_folder's batch_size
    mongo_uri,          \* main: os.getenv('MONGO_URI'): "None", "" or "uri"
    env_batch_size,     \* a batch capacity set in the environment, 0 when none is
    pc,                 \* where main is
    client,             \* self.client: "None", "open" or "closed"
    db,                 \* self.db: "None" or "set"
    zip_file,           \* self.zip_file: "None", "open" or "closed"
    folder_structure,   \* run_complete_process: folder_structure
    folder_i,           \* partitions whose process_folder has returned
    file_i,             \* process_folder: position in file_list
    batch_data,         \* process_folder: batch_data
    stats,              \* process_folder: stats
    total_loaded,       \* run_complete_process: total_stats['total_loaded']
    collection_names,   \* run_complete_process: collection_names
    idx_i,              \* create_indexes: collections gone through
    store,              \* the documents of the database: [coll, doc]
    indexes,            \* the indexes of the database: [coll, key]
    result,             \* what run_complete_process returned: "none", "True", "False"
    caught,             \* the except clause main ran: "none", "KeyboardInterrupt", "Exception"
    dispatched,         \* history: the insert_many calls, in order
    natural_first,      \* the document find_one returns, per collection: [coll, doc]
    index_log,          \* history: the calls create_indexes made on collections
    decode_log,         \* history: the entries load_json_fast was called on
    rejected,           \* history: documents handed to insert_many and not stored
    stats_log,          \* history: the stats process_folder returned, in order
    reported,           \* history: the total the final summary printed, -1 before
    discovered,         \* history: analyze_zip_structure returned partitions
    setup_error         \* history: the setup step that failed: "none", "connection",
                        \*   "archive", "no_entries"

vars == <<archive, batch_size, mongo_uri, env_batch_size, pc, client, db, zip_file,
          folder_structure, folder_i, file_i, batch_data, stats, total_loaded,
          collection_names, idx_i, store, natural_first, indexes, result, caught,
          dispatched, index_log, decode_log, rejected, stats_log, reported,
          discovered, setup_error>>

loader_vars == <<client, db, zip_file>>
\* The local variables of process_folder and of run_complete_process.
folder_vars == <<file_i, batch_data, stats>>
run_vars == <<folder_structure, folder_i, total_loaded, collection_names, idx_i>>
\* The database, and the history of the calls made on it.
store_vars == <<store, natural_first, dispatched, rejected>>
index_vars == <<indexes, index_log>>
history_vars == <<stats_log, reported, discovered, setup_error>>
input_vars == <<archive, batch_size, mongo_uri, env_batch_size>>

\* Mutant: total_files is not set from the entry list.
new_stats_without_total(file_list) ==
    [total_files |-> 0, loaded_files |-> 0, failed_files |-> 0, batch_count |-> 0]

\* stats as process_folder creates it (the timing fields are left out).
new_stats(file_list) ==
    [total_files |-> Len(file_list), loaded_files |-> 0,
     failed_files |-> 0, batch_count |-> 0]

\* What os.getenv('MONGO_URI') may return: None when the variable is not
\* set, the empty string, or a connection string.
MongoUris == {"None", "", "uri"}

\* main is called: nothing is read yet and no loader exists; a loader's
\* __init__ leaves client, db and zip_file None.
Start ==
    /\ pc = "main"
    /\ client = "None"
    /\ db = "None"
    /\ zip_file = "None"
    /\ folder_structure = <<>>
    /\ folder_i = 0
    /\ file_i = 0
    /\ batch_data = <<>>
    /\ stats = new_stats(<<>>)
    /\ total_loaded = 0
    /\ collection_names = <<>>
    /\ idx_i = 0
    /\ store = {}
    /\ natural_first = {}
    /\ indexes = {}
    /\ result = "none"
    /\ caught = "none"
    /\ dispatched = <<>>
    /\ index_log = <<>>
    /\ decode_log = <<>>
    /\ rejected = 0
    /\ stats_log = <<>>
    /\ reported = -1
    /\ discovered = FALSE
    /\ setup_error = "none"

\* A run of main on any archive, with no batch capacity in the environment;
\* batch_size is the default of process_folder's parameter.
Init ==
    /\ archive \in Archives
    /\ batch_size \in BatchSizes
    /\ mongo_uri \in MongoUris
    /\ env_batch_size = 0
    /\ Start

(* ------------------------------ main ----------------------------------- *)

\* run_complete_process is left (by return or by an exception): its local
\* variables and those of process_folder are gone.
unwind ==
    /\ folder_structure' = <<>>
    /\ folder_i' = 0
    /\ file_i' = 0
    /\ batch_data' = <<>>
    /\ stats' = new_stats(<<>>)
    /\ total_loaded' = 0
    /\ collection_names' = <<>>
    /\ idx_i' = 0

\* Mutant: the exception is caught inside run_complete_process, around the
\* loop over the partitions, and the run goes on with create_indexes.
raise_to_main_caught_in_run ==
    /\ pc' = "indexes"
    /\ caught' = "Exception"
    /\ result' = result
    /\ UNCHANGED <<folder_vars, run_vars>>

\* An exception leaves run_complete_process and main's `except Exception`
\* clause runs; the finally clause is next.
raise_to_main ==
    /\ pc' = "finally"
    /\ caught' = "Exception"
    /\ result' = result
    /\ unwind

\* The user's interrupt leaves run_complete_process and main's
\* `except KeyboardInterrupt` clause runs; the finally clause is next.
interrupt_to_main ==
    /\ pc' = "finally"
    /\ caught' = "KeyboardInterrupt"
    /\ result' = result
    /\ unwind

\* run_complete_process returns r to main; the finally clause is next.
return_to_main(r) ==
    /\ pc' = "finally"
    /\ result' = r
    /\ caught' = caught
    /\ unwind

\* run_complete_process goes on to position p.
goto(p) ==
    /\ pc' = p
    /\ result' = result
    /\ caught' = caught

(* ------------------------------- main ---------------------------------- *)

\* Mutant: main creates the loader without looking at mongo_uri.
main_without_validation ==
    /\ pc = "main"
    /\ pc' = "connect"
    /\ UNCHANGED <<loader_vars, result, caught, input_vars, decode_log, folder_vars,
                   run_vars, store_vars, index_vars, history_vars>>

\* main up to the try block: the configuration is read and printed;
\* `if not mongo_uri: return` ends main before a loader is created.
main ==
    /\ pc = "main"
    /\ pc' = IF mongo_uri \in {"None", ""} THEN "done" ELSE "connect"
    /\ UNCHANGED <<loader_vars, result, caught, input_vars, decode_log, folder_vars,
                   run_vars, store_vars, index_vars, history_vars>>

(* ------------------------ connect_to_mongodb --------------------------- *)

\* What MongoClient(...) followed by admin.command('ping') may do.
ConnectOutcomes == {"ok", "constructor_raises", "ConnectionFailure", "ping_raises_other"}

\* Mutant: self.db is assigned before the ping and the method returns True
\* whatever the ping did.
connect_to_mongodb_ignoring_failure ==
    /\ pc = "connect"
    /\ \E outcome \in ConnectOutcomes :
         /\ setup_error' = IF outcome = "ok" THEN "none" ELSE "connection"
         /\ IF outcome = "constructor_raises"
            THEN /\ raise_to_main
                 /\ UNCHANGED <<client, db>>
            ELSE /\ client' = "open"
                 /\ db' = "set"
                 /\ goto("open_zip")
                 /\ UNCHANGED <<folder_vars, run_vars>>
    /\ UNCHANGED <<zip_file, input_vars, decode_log, store_vars, index_vars, stats_log, reported,
                   discovered>>

\* run_complete_process step 1: connect_to_mongodb; False ends the run.
connect_to_mongodb ==
    /\ pc = "connect"
    /\ \E outcome \in ConnectOutcomes :
         /\ setup_error' = IF outcome = "ok" THEN "none" ELSE "connection"
         /\ CASE outcome = "ok" ->
                   /\ client' = "open"
                   /\ db' = "set"
                   /\ goto("open_zip")
                   /\ UNCHANGED <<folder_vars, run_vars>>
              [] outcome = "constructor_raises" ->
                   /\ UNCHANGED <<client, db>>
                   /\ raise_to_main
              [] outcome = "ConnectionFailure" ->
                   /\ client' = "open"
                   /\ UNCHANGED db
                   /\ return_to_main("False")
              [] outcome = "ping_raises_other" ->
                   /\ client' = "open"
                   /\ UNCHANGED db
                   /\ raise_to_main
    /\ UNCHANGED <<zip_file, input_vars, decode_log, store_vars, index_vars, stats_log, reported,
                   discovered>>

(* --------------------------- open_zip_file ----------------------------- *)

\* run_complete_process step 2: zipfile.ZipFile(self.zip_path, 'r') opens
\* the archive or raises (no such file, no ZIP file).
open_zip_file ==
    /\ pc = "open_zip"
    /\ \/ /\ zip_file' = "open"
          /\ goto("analyze")
          /\ UNCHANGED <<folder_vars, run_vars, setup_error>>
       \/ /\ UNCHANGED zip_file
          /\ setup_error' = "archive"
          /\ raise_to_main
    /\ UNCHANGED <<client, db, input_vars, decode_log, store_vars, index_vars, stats_log, reported,
                   discovered>>

(* ------------------------ analyze_zip_structure ------------------------ *)

\* run_complete_process step 3: an empty folder_structure ends the run
\* with False.
analyze_step ==
    /\ pc = "analyze"
    /\ LET structure == analyze_zip_structure(archive)
       IN /\ setup_error' = IF structure = <<>> THEN "no_entries" ELSE "none"
          /\ IF structure = <<>>
             THEN /\ return_to_main("False")
                  /\ UNCHANGED discovered
             ELSE /\ folder_structure' = structure
                  /\ discovered' = TRUE
                  /\ goto("folder")
                  /\ UNCHANGED <<folder_vars, folder_i, total_loaded,
                                 collection_names, idx_i>>
    /\ UNCHANGED <<loader_vars, input_vars, decode_log, store_vars, index_vars, stats_log, reported>>

(* --------------------------- process_folder ---------------------------- *)

\* The partition process_folder is working on, and its arguments.
folder_name == folder_structure[folder_i + 1].name
file_list == folder_structure[folder_i + 1].files

\* Mutant: the batch is dispatched when it has grown beyond batch_size.
batch_is_full_off_by_one(batch, size) == Len(batch) > size

\* len(batch_data) >= batch_size
batch_is_full(batch, size) == Len(batch) >= size

\* Mutant: the remaining batch is dispatched after the loop without
\* `if batch_data:`.
after_entry_always_last_batch(i, n, batch) ==
    IF i <= n THEN "entry" ELSE "bulk_last"

\* Mutant: no dispatch of the remaining batch after the loop.
after_entry_no_last_batch(i, n, batch) ==
    IF i <= n THEN "entry" ELSE "folder_end"

\* Where process_folder is after the entry before position i: the next
\* entry of the for loop, the `if batch_data:` dispatch after the loop, or
\* the return of stats.
after_entry(i, n, batch) ==
    IF i <= n THEN "entry"
    ELSE IF batch # <<>> THEN "bulk_last"
    ELSE "folder_end"

\* Mutant: batch_data is created once for the loader, not in process_folder.
fresh_batch_carried_over == batch_data

\* `batch_data = []` at the start of process_folder.
fresh_batch == <<>>

\* Mutant: batch_data.insert(0, json_data)
batch_prepend(batch, doc) == <<doc>> \o batch

\* batch_data.append(json_data)
batch_append(batch, doc) == Append(batch, doc)

\* run_complete_process step 4, one turn of `for folder_name, file_list`:
\* process_folder up to its for loop.
process_folder_begin ==
    /\ pc = "folder"
    /\ IF db = "None"
       THEN raise_to_main
       ELSE /\ stats' = new_stats(file_list)
            /\ batch_data' = fresh_batch
            /\ file_i' = 1
            /\ goto(after_entry(1, Len(file_list), fresh_batch))
            /\ UNCHANGED run_vars
    /\ UNCHANGED <<loader_vars, input_vars, decode_log, store_vars, index_vars, history_vars>>

\* One turn of `for file_path in file_list`, up to a dispatch of the batch.
process_entry ==
    /\ pc = "entry"
    /\ LET entry == archive[file_list[file_i]]
           file_path == entry.filename
           json_data == load_json_fast(zip_file, entry)
       IN IF json_data.exc # "none"
          THEN raise_to_main
          ELSE IF truthy(json_data.value)
          THEN IF ~supports_item_assignment(json_data.value)
               THEN raise_to_main
               ELSE LET doc == add_metadata(json_data.value.fields, file_path, folder_name)
                        batch == batch_append(batch_data, doc)
                    IN /\ batch_data' = batch
                       /\ stats' = [stats EXCEPT !.loaded_files = @ + 1]
                       /\ IF batch_is_full(batch, batch_size)
                          THEN /\ goto("bulk_full")
                               /\ UNCHANGED file_i
                          ELSE /\ file_i' = file_i + 1
                               /\ goto(after_entry(file_i + 1, Len(file_list), batch))
                       /\ UNCHANGED run_vars
          ELSE /\ stats' = [stats EXCEPT !.failed_files = @ + 1]
               /\ file_i' = file_i + 1
               /\ goto(after_entry(file_i + 1, Len(file_list), batch_data))
               /\ UNCHANGED <<batch_data, run_vars>>
    /\ decode_log' = Append(decode_log, file_list[file_i])
    /\ UNCHANGED <<loader_vars, input_vars, store_vars, index_vars, history_vars>>

(* ---------------------------- execute_batch ---------------------------- *)

\* What collection.insert_many may do: return, raise BulkWriteError (some
\* documents rejected), raise another Exception (destination unreachable),
\* or be cut by the user's interrupt.
WriteOutcomes == {"ok", "BulkWriteError", "OtherException", "KeyboardInterrupt"}

\* The documents (positions of the batch) the store may have kept.
may_accept(outcome, accepted, n) ==
    CASE outcome = "ok" -> accepted = 1..n
      [] outcome = "BulkWriteError" -> accepted # 1..n
      [] outcome = "OtherException" -> accepted # 1..n
      [] outcome = "KeyboardInterrupt" -> TRUE

\* Mutant: execute_batch with `except BulkWriteError` only.
execute_batch_catches_bulk_only(outcome) == outcome = "BulkWriteError"

\* `except BulkWriteError: pass` and `except Exception: pass`;
\* KeyboardInterrupt is no Exception.
execute_batch_catches(outcome) == outcome \in {"BulkWriteError", "OtherException"}

\* Mutant: the dispatched batch stays in memory and is added to.
batch_after_dispatch_kept(batch) == batch

\* `batch_data = []` after the dispatch inside the loop.
batch_after_dispatch(batch) == <<>>

\* The document find_one() returns stays the same while the collection is
\* not written to; which of the documents of the first successful insert it
\* is, is the server's choice.
first_choices(coll, batch, accepted) ==
    IF accepted = {} \/ \E x \in natural_first : x.coll = coll
    THEN {natural_first}
    ELSE {natural_first \cup {[coll |-> coll, doc |-> batch[i]]} : i \in accepted}

\* execute_batch(collection, batch_data) as called from process_folder,
\* with what process_folder does on its return.
execute_batch ==
    /\ pc \in {"bulk_full", "bulk_last"}
    /\ \E outcome \in WriteOutcomes, accepted \in SUBSET DOMAIN batch_data :
         /\ may_accept(outcome, accepted, Len(batch_data))
         /\ store' = store \cup
                {[coll |-> collection_name_of(folder_name), doc |-> batch_data[i]] :
                    i \in accepted}
         /\ natural_first' \in
                first_choices(collection_name_of(folder_name), batch_data, accepted)
         /\ rejected' = rejected + Len(batch_data) - Cardinality(accepted)
         /\ dispatched' = Append(dispatched,
                [coll |-> collection_name_of(folder_name), folder |-> folder_name,
                 batch |-> batch_data, last |-> pc = "bulk_last",
                 capacity |-> batch_size])
         /\ IF outcome = "ok" \/ execute_batch_catches(outcome)
            THEN /\ stats' = [stats EXCEPT !.batch_count = @ + 1]
                 /\ IF pc = "bulk_full"
                    THEN /\ batch_data' = batch_after_dispatch(batch_data)
                         /\ file_i' = file_i + 1
                         /\ goto(after_entry(file_i + 1, Len(file_list),
                                             batch_after_dispatch(batch_data)))
                    ELSE /\ goto("folder_end")
                         /\ UNCHANGED <<batch_data, file_i>>
                 /\ UNCHANGED run_vars
            ELSE IF outcome = "KeyboardInterrupt"
            THEN interrupt_to_main
            ELSE raise_to_main
    /\ UNCHANGED <<loader_vars, input_vars, decode_log, index_vars, history_vars>>

\* Mutant: index creation starts as soon as the first partition is loaded.
after_folder_index_early(k, n) == "indexes"

\* Where run_complete_process is when k of n partitions are done.
after_folder(k, n) == IF k < n THEN "folder" ELSE "indexes"

\* process_folder returns stats; run_complete_process adds them up and
\* notes the collection name.
process_folder_end ==
    /\ pc = "folder_end"
    /\ stats_log' = Append(stats_log, stats)
    /\ total_loaded' = total_loaded + stats.loaded_files
    /\ collection_names' = Append(collection_names, collection_name_of(folder_name))
    /\ folder_i' = folder_i + 1
    /\ goto(after_folder(folder_i + 1, Len(folder_structure)))
    /\ UNCHANGED <<loader_vars, input_vars, decode_log, folder_structure, idx_i, folder_vars,
                   store_vars, index_vars, reported, discovered, setup_error>>

(* --------------------------- create_indexes ---------------------------- *)

\* The documents of a collection.
docs_of(coll) == {d.doc : d \in {x \in store : x.coll = coll}}

\* Mutant: find_one(skip=n), n the number of collections gone through.
find_one_skipping(coll) ==
    LET others == docs_of(coll) \ {x.doc : x \in natural_first}
    IN IF idx_i > 0 /\ others # {}
       THEN [type |-> "dict", fields |-> CHOOSE d \in others : TRUE]
       ELSE IF \E x \in natural_first : x.coll = coll
       THEN [type |-> "dict",
             fields |-> (CHOOSE x \in natural_first : x.coll = coll).doc]
       ELSE None

\* collection.find_one(): a document of the collection, None when it has none.
find_one(coll) ==
    IF \E x \in natural_first : x.coll = coll
    THEN [type |-> "dict", fields |-> (CHOOSE x \in natural_first : x.coll = coll).doc]
    ELSE None

IndexCompound == "_source_folder,_source_file"

\* `if sample and key in sample`
sample_has(sample, key) == truthy(sample) /\ key \in DOMAIN sample.fields

\* Mutant: the business indexes are created whatever find_one returned.
index_steps_unconditional(sample) ==
    <<"_source_file", "_source_folder", IndexCompound, "find_one",
      "factura_num", "fecha_hora">>

\* The calls create_indexes makes on one collection, in order, given the
\* document find_one returns.
index_steps(sample) ==
    <<"_source_file", "_source_folder", IndexCompound, "find_one">>
    \o (IF sample_has(sample, "factura_num") THEN <<"factura_num">> ELSE <<>>)
    \o (IF sample_has(sample, "fecha_hora") THEN <<"fecha_hora">> ELSE <<>>)

\* The create_index calls among the first n steps.
create_index_calls(steps, n) ==
    {i \in 1..n : steps[i] # "find_one"}

\* The record of the first `tried` calls on the collection: the key of a
\* create_index call, the field names of the document a find_one call
\* returned, and whether the call raised.
calls_made(coll, steps, sample, tried, fail_at) ==
    [i \in 1..tried |->
        [coll |-> coll, key |-> steps[i],
         probed |-> IF steps[i] = "find_one" /\ i # fail_at /\ truthy(sample)
                    THEN DOMAIN sample.fields ELSE {},
         raised |-> i = fail_at]]

\* Mutant: each call in a try statement of its own; the calls after the
\* one that raises are made.
calls_tried_all(steps, fail_at) == Len(steps)

\* The calls made on a collection when call fail_at raises (0: none does):
\* the except clause is reached from the call that raises.
calls_tried(steps, fail_at) == IF fail_at = 0 THEN Len(steps) ELSE fail_at

\* Mutant: one try statement around the whole loop; the first call that
\* raises ends create_indexes.
after_collection_until_failure(k, n, raised) ==
    IF k < n /\ ~raised THEN "indexes" ELSE "report"

\* Where create_indexes is when k of n collections are gone through; the
\* except clause is inside the loop.
after_collection(k, n, raised) == IF k < n THEN "indexes" ELSE "report"

\* Mutant: the summary counts the documents of the database.
final_report_counting_store ==
    /\ reported' = Cardinality(store)
    /\ pc' = "finally"
    /\ result' = "True"
    /\ caught' = caught

\* run_complete_process step 6, after create_indexes has returned: the
\* summary is printed and True returned to main.  The local variables
\* are left as they are: on this return each is determined by the archive
\* and batch_size.
final_report ==
    /\ reported' = total_loaded
    /\ pc' = "finally"
    /\ result' = "True"
    /\ caught' = caught

\* run_complete_process step 5: create_indexes, one turn of
\* `for collection_name in collections`: the calls succeed up to step
\* fail_at, which raises (0: none raises); the except clause prints and the
\* loop goes on; after the last turn create_indexes returns and
\* run_complete_process reports.
create_indexes ==
    /\ pc = "indexes"
    /\ IF db = "None" \/ collection_names = <<>>
       THEN /\ final_report
            /\ UNCHANGED <<index_vars, idx_i>>
       ELSE LET coll == collection_names[idx_i + 1]
                sample == find_one(coll)
                steps == index_steps(sample)
            IN \E fail_at \in 0..Len(steps) :
                 LET ok == IF fail_at = 0 THEN Len(steps) ELSE fail_at - 1
                     tried == calls_tried(steps, fail_at)
                 IN /\ indexes' = indexes \cup
                          {[coll |-> coll, key |-> steps[i]] :
                              i \in create_index_calls(steps, ok)}
                    /\ index_log' = index_log \o
                          calls_made(coll, steps, sample, tried, fail_at)
                    /\ idx_i' = idx_i + 1
                    /\ IF after_collection(idx_i + 1, Len(collection_names),
                                           fail_at # 0) = "indexes"
                       THEN /\ goto("indexes")
                            /\ UNCHANGED reported
                       ELSE final_report
    /\ UNCHANGED <<loader_vars, input_vars, decode_log, folder_vars, folder_structure,
                   folder_i, total_loaded, collection_names, store_vars, stats_log,
                   discovered, setup_error>>

(* ------------------------- main: except, finally ----------------------- *)

\* The positions of run_complete_process between two calls.
RunPositions == {"connect", "open_zip", "analyze", "folder", "entry",
                 "folder_end", "indexes"}

\* The user interrupts the run between two calls.
keyboard_interrupt ==
    /\ pc \in RunPositions
    /\ interrupt_to_main
    /\ UNCHANGED <<loader_vars, input_vars, decode_log, store_vars, index_vars, history_vars>>

\* Mutant: the client is closed only when an archive was open.
close_connection_nested ==
    /\ pc = "finally"
    /\ zip_file' = IF zip_file = "open" THEN "closed" ELSE zip_file
    /\ client' = IF zip_file = "open" /\ client = "open" THEN "closed" ELSE client
    /\ pc' = "done"
    /\ UNCHANGED <<db, result, caught, input_vars, decode_log, folder_vars, run_vars,
                   store_vars, index_vars, history_vars>>

\* main's finally clause: loader.close_connection().
close_connection ==
    /\ pc = "finally"
    /\ zip_file' = IF zip_file = "open" THEN "closed" ELSE zip_file
    /\ client' = IF client = "open" THEN "closed" ELSE client
    /\ pc' = "done"
    /\ UNCHANGED <<db, result, caught, input_vars, decode_log, folder_vars, run_vars,
                   store_vars, index_vars, history_vars>>

(* --------------------------- specification ----------------------------- *)

Next ==
    \/ main
    \/ connect_to_mongodb
    \/ open_zip_file
    \/ analyze_step
    \/ process_folder_begin
    \/ process_entry
    \/ execute_batch
    \/ process_folder_end
    \/ create_indexes
    \/ keyboard_interrupt
    \/ close_connection

Spec == Init /\ [][Next]_vars

\* The archives whose entries are all data entries holding a JSON object
\* with business fields.
WellFormedArchives ==
    {a \in Archives :
        \A i \in DOMAIN a : is_data_entry(a[i].filename) /\ a[i].kind = "dict"}

\* A run of main with a connection string, on a well-formed archive, with or
\* without a batch capacity set in the environment.  main reads ZIP_PATH,
\* MONGO_URI and DATABASE_NAME and nothing else, and run_complete_process
\* calls process_folder(folder_name, file_list): batch_size is the default
\* of the parameter whatever the environment holds.
InitConfigured ==
    /\ archive \in WellFormedArchives
    /\ batch_size \in BatchSizes
    /\ mongo_uri = "uri"
    /\ env_batch_size \in {0} \cup BatchSizes
    /\ Start

SpecConfigured == InitConfigured /\ [][Next]_vars

\* Folder names of one letter.
folder_a == <<"a">>
folder_b == <<"b">>
folder_c == <<"c">>

\* An archive of three folders: ten JSON objects in the first, five in the
\* second, and in the third one entry that is no data entry.
ScenarioA ==
    [i \in 1..16 |->
        IF i <= 10 THEN [filename |-> FileName(<<folder_a>>, i, "json"), kind |-> "dict"]
        ELSE IF i <= 15 THEN [filename |-> FileName(<<folder_b>>, i, "json"), kind |-> "dict"]
        ELSE [filename |-> FileName(<<folder_c>>, i, "txt"), kind |-> "dict"]]

\* process_folder called with batch_size 4 on the partitions of ScenarioA.
InitScenarioA ==
    /\ archive = ScenarioA
    /\ batch_size = 4
    /\ mongo_uri = "uri"
    /\ env_batch_size = 0
    /\ Start

\* execute_batch when insert_many stores the whole batch and returns.
execute_batch_stored ==
    /\ execute_batch
    /\ rejected' = rejected
    /\ caught' = caught

\* The steps of a run against a store that accepts every document.
NextStored ==
    \/ main
    \/ connect_to_mongodb
    \/ open_zip_file
    \/ analyze_step
    \/ process_folder_begin
    \/ process_entry
    \/ execute_batch_stored
    \/ process_folder_end
    \/ create_indexes
    \/ keyboard_interrupt
    \/ close_connection

\* Runs on ScenarioA and on every well-formed archive within the bounds.
InitBatching ==
    \/ InitScenarioA
    \/ /\ archive \in WellFormedArchives
       /\ batch_size \in BatchSizes
       /\ mongo_uri = "uri"
       /\ env_batch_size = 0
       /\ Start

SpecBatching == InitBatching /\ [][NextStored]_vars

\* The kinds of entries tried for the indexes: JSON objects with business
\* fields everywhere, without them in one folder, and in another folder the
\* empty object, which is not loaded and may leave the collection empty.
IndexKindsIn(d) ==
    CASE d = F_1_upper -> {"dict", "dictprov"}
      [] d = f_1_lower -> {"dict"}
      [] d = folder_a -> {"dict", "empty"}

\* Listings of such entries in three folders, two of which have the same
\* collection name.
RECURSIVE IndexListings(_)
IndexListings(n) ==
    IF n = 0 THEN {<<>>}
    ELSE UNION {{Append(l, [filename |-> FileName(<<d>>, n, "json"), kind |-> k]) :
                    l \in IndexListings(n - 1), k \in IndexKindsIn(d)} :
                  d \in {F_1_upper, f_1_lower, folder_a}}

\* A run of main with a connection string on such a listing, against a
\* store that accepts every document.
InitIndex ==
    /\ archive \in UNION {IndexListings(n) : n \in 0..MaxEntries}
    /\ batch_size \in BatchSizes
    /\ mongo_uri = "uri"
    /\ env_batch_size = 0
    /\ Start

SpecIndex == InitIndex /\ [][NextStored]_vars

\* Names for analyze_zip_structure: in no folder, in a folder, in a folder
\* called root, in a folder of a folder; ending in .json, in .txt, or the
\* name of a directory (it ends in the separator).
PathChoices == {<<>>, <<folder_a>>, <<root>>, <<folder_b>>, <<folder_b, folder_a>>}
EndingChoices == {"json", "txt", "/"}

RECURSIVE NamedListings(_)
NamedListings(n) ==
    IF n = 0 THEN {<<>>}
    ELSE {Append(l, [filename |-> FileName(d, n, x), kind |-> "dict"]) :
             l \in NamedListings(n - 1), d \in PathChoices, x \in EndingChoices}

\* A loader on any listing of such names.
InitAnalyze ==
    /\ archive \in UNION {NamedListings(n) : n \in 0..MaxEntries}
    /\ batch_size = 1
    /\ mongo_uri = "uri"
    /\ env_batch_size = 0
    /\ Start

\* loader.analyze_zip_structure() called on its own; it opens the archive
\* itself and needs no connection.
analyze_only ==
    /\ pc = "main"
    /\ folder_structure' = analyze_zip_structure(archive)
    /\ pc' = "done"
    /\ UNCHANGED <<loader_vars, result, caught, input_vars, decode_log, folder_vars,
                   folder_i, total_loaded, collection_names, idx_i, store_vars,
                   index_vars, history_vars>>

SpecAnalyze == InitAnalyze /\ [][analyze_only]_vars

\* The counts the final summary prints (lines 421-424), by name: the total
\* of documents and nothing else.
summary_counts ==
    IF reported = -1 THEN {}
    ELSE {[name |-> "total_loaded", value |-> reported]}

(* ------------------------------ claims --------------------------------- *)

\* The number of create_index calls made so far.
index_calls == Cardinality({i \in DOMAIN index_log : index_log[i].key # "find_one"})

\* N: the data entries of the archive.
DataEntries == {i \in DOMAIN archive : is_data_entry(archive[i].filename)}

\* The failed_files of the partitions whose process_folder has returned.
RECURSIVE SumFailedFiles(_)
SumFailedFiles(log) ==
    IF log = <<>> THEN 0
    ELSE log[1].failed_files + SumFailedFiles(Tail(log))

\* C1 as stated: when run_complete_process returns True, the number of
\* stored documents is N minus the entries counted in failed_files,
\* whatever the bulk-write calls did.
C1_StoredEqualsDecoded ==
    result = "True" =>
        Cardinality(store) = Cardinality(DataEntries) - SumFailedFiles(stats_log)

\* C1 amended: when run_complete_process returns True, the number of stored
\* documents is N minus the entries counted in failed_files minus the
\* documents that bulk-write calls were given and did not store.
C1_StoredEqualsDecodedMinusRejected ==
    result = "True" =>
        Cardinality(store) =
            Cardinality(DataEntries) - SumFailedFiles(stats_log) - rejected

\* A run that returned True after two partitions, with an entry that failed
\* to decode, a document a bulk-write call rejected and a document stored.
C1_Witness ==
    /\ result = "True"
    /\ Len(stats_log) = 2
    /\ SumFailedFiles(stats_log) > 0
    /\ rejected > 0
    /\ store # {}

\* The data entries analyze_zip_structure puts in partition `folder`.
EntriesOfFolder(folder) ==
    {i \in DataEntries : folder_of(archive[i].filename) = folder}

\* The document carries both provenance fields, naming an entry of the
\* partition `folder` and that partition.
HasProvenance(doc, folder) ==
    /\ ProvenanceKeys \subseteq DOMAIN doc
    /\ doc["_source_folder"] = folder
    /\ \E i \in EntriesOfFolder(folder) : doc["_source_file"] = archive[i].filename

\* C2: every record handed to execute_batch, and every stored document, has
\* both provenance fields, equal to the entry's name and to the name of the
\* partition being processed, also when the source document defines them.
C2_ProvenanceOnEveryRecord ==
    /\ \A j \in DOMAIN dispatched :
         \A k \in DOMAIN dispatched[j].batch :
            HasProvenance(dispatched[j].batch[k], dispatched[j].folder)
    /\ \A x \in store :
         \E j \in DOMAIN dispatched :
            /\ x.coll = dispatched[j].coll
            /\ HasProvenance(x.doc, dispatched[j].folder)

\* A stored document whose source defined the provenance keys itself.
C2_Witness ==
    \E x \in store :
       \E i \in DataEntries :
          /\ archive[i].kind = "dictprov"
          /\ x.doc["_source_file"] = archive[i].filename

\* C3 as stated: no collection is given documents of more than one
\* partition; distinct partition names have distinct collection names.
C3_OneCollectionPerPartition ==
    \A j, k \in DOMAIN dispatched :
       dispatched[j].coll = dispatched[k].coll
           => dispatched[j].folder = dispatched[k].folder

\* C4: a dispatched batch never holds more than the capacity, and a batch
\* that holds fewer is the last one of its partition.
C4_BatchCapacity ==
    \A j \in DOMAIN dispatched :
       /\ Len(dispatched[j].batch) <= dispatched[j].capacity
       /\ Len(dispatched[j].batch) < dispatched[j].capacity =>
             \A k \in DOMAIN dispatched :
                k > j => dispatched[k].folder # dispatched[j].folder

\* A partition dispatched as a full batch of two and a last batch of one.
C4_Witness ==
    \E j, k \in DOMAIN dispatched :
       /\ j < k
       /\ dispatched[j].folder = dispatched[k].folder
       /\ dispatched[j].capacity = 2
       /\ Len(dispatched[j].batch) = 2
       /\ Len(dispatched[k].batch) = 1

\* Entries whose bytes do not decode: no JSON text, no UTF-8 text, or not
\* in the open archive.
DecodeFailureKinds == {"malformed", "badutf8", "missing"}

\* C5 as stated: an entry that fails to decode is counted in failed_files
\* and skipped; process_folder goes on and no exception reaches main.
C5_DecodeFailureIsLocal ==
    [][(/\ pc = "entry"
        /\ archive[file_list[file_i]].kind \in DecodeFailureKinds
        /\ caught' # "KeyboardInterrupt")
       => (/\ caught' = "none"
           /\ pc' \in {"entry", "bulk_last", "folder_end"}
           /\ stats'.failed_files = stats.failed_files + 1
           /\ batch_data' = batch_data)]_vars

\* C6: a bulk-write call that fails, partially or totally, raises nothing
\* out of execute_batch, process_folder counts the batch and goes on, and
\* no stored document is ever removed.
C6_WriteFailureSwallowed ==
    [][/\ store \subseteq store'
       /\ (/\ pc \in {"bulk_full", "bulk_last"}
           /\ rejected' > rejected
           /\ caught' # "KeyboardInterrupt")
          => (/\ caught' = "none"
              /\ pc' \in {"entry", "bulk_last", "folder_end"}
              /\ stats'.batch_count = stats.batch_count + 1
              /\ Cardinality(store') =
                    Cardinality(store) + Len(batch_data) - (rejected' - rejected))]_vars

\* A batch of two of which the store kept one, followed by another batch.
C6_Witness ==
    \E j \in DOMAIN dispatched :
       /\ j < Len(dispatched)
       /\ Len(dispatched[j].batch) = 2
       /\ [coll |-> dispatched[j].coll, doc |-> dispatched[j].batch[1]] \in store
       /\ [coll |-> dispatched[j].coll, doc |-> dispatched[j].batch[2]] \notin store

\* C7: create_indexes starts, and every index-creation call is made, when
\* process_folder has returned for every partition; no bulk-write call is
\* made once index creation has started.
C7_IndexesAfterAllWrites ==
    [][/\ (pc' = "indexes" \/ index_calls' > index_calls)
          => (/\ folder_i' = Len(folder_structure')
              /\ Len(stats_log') = Len(folder_structure'))
       /\ Len(dispatched') > Len(dispatched)
          => (index_calls = 0 /\ pc \notin {"indexes", "report"})]_vars

\* Index-creation calls made after two partitions were written.
C7_Witness ==
    /\ index_calls > 0
    /\ Len(stats_log) = 2
    /\ Len(dispatched) >= 2

\* C8: when main returns, the archive handle and the store connection that
\* were opened are closed.
C8_ResourcesReleased ==
    pc = "done" => (zip_file # "open" /\ client # "open")

\* main returned after an interrupt during the load; both were closed.
C8_Witness ==
    /\ pc = "done"
    /\ caught = "KeyboardInterrupt"
    /\ dispatched # <<>>
    /\ zip_file = "closed"
    /\ client = "closed"

\* C9: after a failed setup step (connection, archive, no data entries) the
\* run is over: no bulk-write call and no index-creation call is made.
C9_NoWritesAfterSetupFailure ==
    setup_error # "none" =>
        /\ pc \in {"finally", "done"}
        /\ dispatched = <<>>
        /\ index_calls = 0
        /\ result # "True"

\* main returned after the archive could not be opened.
C9_Witness ==
    /\ pc = "done"
    /\ setup_error = "archive"
    /\ client = "closed"

\* C10 as stated: once partitions are discovered and the user does not
\* interrupt, the run ends with run_complete_process returning True.
C10_CompletesOnceDiscovered ==
    (pc = "done" /\ discovered /\ caught # "KeyboardInterrupt") => result = "True"

\* C11 as stated: the user's interrupt ends the run only between two
\* bulk-write calls, never while one is in progress, and after an interrupt
\* main closes the archive and the connection.
C11_InterruptOnlyBetweenBatches ==
    [][/\ (caught = "none" /\ caught' = "KeyboardInterrupt")
          => pc \notin {"bulk_full", "bulk_last"}
       /\ (pc = "finally" /\ caught = "KeyboardInterrupt")
          => (pc' = "done" /\ zip_file' # "open" /\ client' # "open")]_vars

\* C12 as stated: when a batch capacity is configured, no dispatched batch
\* holds more records than the configured capacity; the default capacity
\* is used only when none is configured.
C12_ConfiguredCapacityBoundsBatches ==
    env_batch_size # 0 =>
        \A j \in DOMAIN dispatched :
           Len(dispatched[j].batch) <= env_batch_size

\* C14: with no connection string (not set, or empty) main is over before
\* a connection is tried and before the archive is opened, and nothing is
\* written.
C14_NoRunWithoutConnectionString ==
    mongo_uri \in {"None", ""} =>
        /\ pc \in {"main", "done"}
        /\ client = "None"
        /\ zip_file = "None"
        /\ setup_error = "none"
        /\ dispatched = <<>>
        /\ store = {}

\* main returned on an empty connection string.
C14_Witness ==
    /\ pc = "done"
    /\ mongo_uri = ""
    /\ client = "None"

\* The sizes of the batches dispatched for a partition, in order.
BatchSizesOf(folder) ==
    LET sel == SelectSeq(dispatched, LAMBDA d : d.folder = folder)
    IN [i \in DOMAIN sel |-> Len(sel[i].batch)]

\* ceil(k / c)
CeilDiv(k, c) == (k + c - 1) \div c

\* C13: once process_folder has returned for a partition of k well-formed
\* entries, it has dispatched ceil(k / batch_size) batches, all of them of
\* batch_size records but the last, which holds the rest; on ScenarioA with
\* batch_size 4 these are (4,4,2) for the first partition, (4,1) for the
\* second and none for the third folder, and 15 documents are stored.
C13_BatchesPerPartition ==
    /\ \A j \in DOMAIN stats_log :
          LET part == analyze_zip_structure(archive)[j]
              k == Len(part.files)
              sizes == BatchSizesOf(part.name)
          IN /\ Len(sizes) = CeilDiv(k, batch_size)
             /\ stats_log[j].batch_count = CeilDiv(k, batch_size)
             /\ \A i \in DOMAIN sizes :
                   sizes[i] = IF i * batch_size <= k THEN batch_size
                              ELSE k - (i - 1) * batch_size
    /\ (archive = ScenarioA /\ result = "True") =>
          /\ BatchSizesOf(folder_a) = <<4, 4, 2>>
          /\ BatchSizesOf(folder_b) = <<4, 1>>
          /\ BatchSizesOf(folder_c) = <<>>
          /\ Cardinality(store) = 15

\* The run on ScenarioA returned True with the five batches dispatched.
C13_Witness ==
    /\ archive = ScenarioA
    /\ result = "True"
    /\ Len(dispatched) = 5
    /\ Len(stats_log) = 2

\* The places of the mapping m that hold the entry at position i.
PlacesOf(m, i) ==
    {p \in UNION {{<<j, k>> : k \in DOMAIN m[j].files} : j \in DOMAIN m} :
        m[p[1]].files[p[2]] = i}

\* C15: in the mapping analyze_zip_structure returns, every entry whose
\* name ends in .json is in exactly one place, in the partition named by the
\* first segment of its name, or in `root` when the name has no separator;
\* no other entry is in the mapping; the entries of a partition are in the
\* order of the listing; no two partitions have the same name and none is
\* empty.
C15_PartitionByFirstSegment ==
    pc = "done" =>
        LET m == folder_structure
        IN /\ \A i \in DOMAIN archive :
                 LET name == archive[i].filename
                 IN IF name.ext = "json"
                    THEN /\ Cardinality(PlacesOf(m, i)) = 1
                         /\ \A p \in PlacesOf(m, i) :
                               m[p[1]].name =
                                  IF name.dirs = <<>> THEN root ELSE Head(name.dirs)
                    ELSE PlacesOf(m, i) = {}
           /\ \A j \in DOMAIN m :
                 /\ m[j].files # <<>>
                 /\ \A k \in DOMAIN m[j].files : m[j].files[k] \in DOMAIN archive
                 /\ \A k1, k2 \in DOMAIN m[j].files :
                       k1 < k2 => m[j].files[k1] < m[j].files[k2]
                 /\ \A j2 \in DOMAIN m : m[j2].name = m[j].name => j2 = j

\* A mapping with two entries in `root`, one with no folder and one in a
\* folder called root, and an entry left out.
C15_Witness ==
    /\ pc = "done"
    /\ \E j \in DOMAIN folder_structure :
          /\ folder_structure[j].name = root
          /\ Len(folder_structure[j].files) = 2
          /\ \E k1, k2 \in DOMAIN folder_structure[j].files :
                /\ archive[folder_structure[j].files[k1]].filename.dirs = <<>>
                /\ archive[folder_structure[j].files[k2]].filename.dirs = <<root>>
    /\ \E i \in DOMAIN archive : PlacesOf(folder_structure, i) = {}

\* The calls create_indexes has made in the step just taken.
NewCalls == SubSeq(index_log', Len(index_log) + 1, Len(index_log'))

\* The field names of the document the find_one call among the calls
\* returned; none when it returned None, raised or was not reached.
ProbedIn(calls) ==
    UNION {calls[i].probed : i \in DOMAIN calls}

\* The calls the claim expects on a collection whose probed document has
\* the field names `probed`.
ExpectedCalls(probed) ==
    <<"_source_file", "_source_folder", "_source_folder,_source_file", "find_one">>
    \o (IF "factura_num" \in probed THEN <<"factura_num">> ELSE <<>>)
    \o (IF "fecha_hora" \in probed THEN <<"fecha_hora">> ELSE <<>>)

\* C16: the calls create_indexes makes on a collection are, in this order,
\* create_index on _source_file, on _source_folder, on both, find_one, and
\* create_index on factura_num and on fecha_hora exactly for those of the
\* two that the document find_one returned has; the calls end early only
\* when one raises; on an empty collection find_one returns no document and
\* no business index is asked for; every index asked for without an
\* exception is in the database.
C16_IndexOrderAndBusinessFields ==
    [][(pc = "indexes" /\ Len(index_log') > Len(index_log)) =>
          LET coll == collection_names[idx_i + 1]
              calls == NewCalls
              expected == ExpectedCalls(ProbedIn(calls))
          IN /\ Len(calls) <= Len(expected)
             /\ \A i \in DOMAIN calls :
                   /\ calls[i].coll = coll
                   /\ calls[i].key = expected[i]
                   /\ calls[i].raised => i = Len(calls)
                   /\ (~calls[i].raised /\ calls[i].key # "find_one")
                         => [coll |-> coll, key |-> calls[i].key] \in indexes'
             /\ (\A i \in DOMAIN calls : ~calls[i].raised)
                   => Len(calls) = Len(expected)
             /\ docs_of(coll) = {} => ProbedIn(calls) = {}
             /\ ProbedIn(calls) # {} =>
                   \E d \in docs_of(coll) : DOMAIN d = ProbedIn(calls)
             /\ \A x \in indexes' \ indexes :
                   /\ x.coll = coll
                   /\ \E i \in DOMAIN calls : calls[i].key = x.key]_vars

\* The run returned True after the indexes of a collection with no
\* document (no business index) and of a collection whose probed document
\* has both business fields (both indexes) were created.
C16_Witness ==
    /\ result = "True"
    /\ \E i, j \in DOMAIN index_log :
          /\ index_log[i].key = "find_one"
          /\ ~index_log[i].raised
          /\ index_log[i].probed = {}
          /\ (i = Len(index_log) \/ index_log[i + 1].key = "_source_file")
          /\ index_log[j].key = "fecha_hora"
          /\ ~index_log[j].raised
          /\ index_log[j - 1].key = "factura_num"

\* C17: a turn of the loop of create_indexes, whether a call in it raised
\* or not, makes at least the first call on its collection, moves to the
\* next collection, raises nothing to main and leaves the documents as
\* they are; the loop is left, and run_complete_process returns True, only
\* after the turn of the last collection.
C17_IndexFailureIsLocal ==
    [][(pc = "indexes" /\ caught' # "KeyboardInterrupt") =>
          /\ caught' = caught
          /\ store' = store
          /\ Len(index_log') > Len(index_log)
          /\ index_log'[Len(index_log) + 1].coll = collection_names[idx_i + 1]
          /\ idx_i' = idx_i + 1
          /\ IF idx_i' < Len(collection_names)
             THEN pc' = "indexes" /\ result' = result
             ELSE pc' = "finally" /\ result' = "True"]_vars

\* The run returned True after a call on one collection raised and calls on
\* another collection were made afterwards.
C17_Witness ==
    /\ result = "True"
    /\ store # {}
    /\ \E i, j \in DOMAIN index_log :
          /\ i < j
          /\ index_log[i].raised
          /\ index_log[j].coll # index_log[i].coll
          /\ ~index_log[j].raised

\* create_indexes has gone through the collection before, in this call,
\* and no call on it raised.
AlreadyIndexed(coll) ==
    /\ \E k \in 1..idx_i : collection_names[k] = coll
    /\ \A i \in DOMAIN index_log : index_log[i].coll = coll => ~index_log[i].raised

DispatchPlaces ==
    UNION {{<<j, k>> : k \in DOMAIN dispatched[j].batch} : j \in DOMAIN dispatched}

\* The batch_count and the loaded_files of the partitions whose
\* process_folder has returned.
RECURSIVE SumBatchCount(_)
SumBatchCount(log) ==
    IF log = <<>> THEN 0
    ELSE log[1].batch_count + SumBatchCount(Tail(log))

RECURSIVE SumLoadedFiles(_)
SumLoadedFiles(log) ==
    IF log = <<>> THEN 0
    ELSE log[1].loaded_files + SumLoadedFiles(Tail(log))

C21_BatchScopedToOnePartition ==
    \A j \in DOMAIN dispatched :
        /\ \A k \in DOMAIN dispatched[j].batch :
              dispatched[j].batch[k]["_source_folder"] = dispatched[j].folder
        /\ dispatched[j].coll = collection_name_of(dispatched[j].folder)
        /\ \A i \in 1..(j - 1) :
              dispatched[i].folder = dispatched[j].folder =>
                  dispatched[j - 1].folder = dispatched[j].folder

\* The second partition dispatched a batch after the first one had, and
\* the first one had left a record in its batch when it dispatched.
C21_Witness ==
    /\ Len(dispatched) >= 2
    /\ dispatched[1].folder # dispatched[2].folder
    /\ dispatched[1].last
    /\ Len(dispatched[1].batch) < dispatched[1].capacity

\* The batches handed to insert_many for a partition, one after the other.
RECURSIVE DispatchedOf(_, _)
DispatchedOf(log, folder) ==
    IF log = <<>> THEN <<>>
    ELSE (IF log[1].folder = folder THEN log[1].batch ELSE <<>>)
         \o DispatchedOf(Tail(log), folder)

\* The records of the entries of a list that decode to a truthy value, in
\* the order of the list.
RECURSIVE DecodedOf(_, _)
DecodedOf(files, folder) ==
    IF files = <<>> THEN <<>>
    ELSE LET entry == archive[files[1]]
             json_data == load_json_fast("open", entry)
         IN (IF truthy(json_data.value)
             THEN <<add_metadata(json_data.value.fields, entry.filename, folder)>>
             ELSE <<>>)
            \o DecodedOf(Tail(files), folder)

\* C22: before an entry is read the batch holds fewer records than the
\* capacity, and when process_folder is about to return, the batches it
\* handed to insert_many, put end to end, are the records of the entries
\* that decoded, in the order of the entry list, each once and none missing.
C22_FlushedAtCapacityAndAtEnd ==
    /\ pc = "entry" => Len(batch_data) < batch_size
    /\ pc = "folder_end" =>
          DispatchedOf(dispatched, folder_name) = DecodedOf(file_list, folder_name)

\* process_folder is about to return after a full batch and a last batch
\* of one record.
C22_Witness ==
    /\ pc = "folder_end"
    /\ Len(dispatched) = 2
    /\ ~dispatched[1].last
    /\ dispatched[2].last
    /\ Len(DispatchedOf(dispatched, folder_name)) = 3

\* The steps of a run in the order run_complete_process takes them: the
\* positions that may follow each position, the way out to main's except
\* and finally clauses apart.
StateOrder ==
    [main |-> {"connect", "done"},
     connect |-> {"open_zip"},
     open_zip |-> {"analyze"},
     analyze |-> {"folder"},
     folder |-> {"entry"},
     entry |-> {"entry", "bulk_full", "bulk_last", "folder_end"},
     bulk_full |-> {"entry", "bulk_last", "folder_end"},
     bulk_last |-> {"folder_end"},
     folder_end |-> {"folder", "indexes"},
     indexes |-> {"indexes"},
     finally |-> {"done"},
     done |-> {}]

\* The run has failed: run_complete_process returned False or raised an
\* exception; the user's interrupt is not counted.
Failed == result = "False" \/ caught = "Exception"

\* C23 as stated: every step goes to a position that follows in the state
\* order or leaves the run, and the run fails only in a step of connecting,
\* opening the archive or discovering the partitions, never once the
\* partitions are discovered.
C23_FailureOnlyDuringSetup ==
    [][/\ pc' \in StateOrder[pc] \cup {"finally"}
       /\ (Failed' /\ ~Failed) => (pc \in {"connect", "open_zip", "analyze"} /\ ~discovered)]_vars

\* The insert_many calls made so far for a partition.
CallsFor(folder) ==
    Cardinality({j \in DOMAIN dispatched : dispatched[j].folder = folder})

\* C24: inside process_folder loaded_files + failed_files is the number of
\* entries gone through (file_i is the entry being worked on, the one just
\* appended while a full batch is dispatched) and batch_count the number of insert_many calls
\* that have returned for the partition; when process_folder is about to
\* return, and in the stats it has returned, loaded_files + failed_files
\* is total_files, the length of the entry list.
C24_StatisticsConserved ==
    /\ pc = "entry" =>
          /\ stats.loaded_files + stats.failed_files = file_i - 1
          /\ stats.batch_count = CallsFor(folder_name)
    /\ pc = "bulk_full" =>
          /\ stats.loaded_files + stats.failed_files = file_i
          /\ stats.batch_count = CallsFor(folder_name)
    /\ pc = "bulk_last" =>
          /\ stats.loaded_files + stats.failed_files = Len(file_list)
          /\ stats.batch_count = CallsFor(folder_name)
    /\ pc = "folder_end" =>
          /\ stats.total_files = Len(file_list)
          /\ stats.loaded_files + stats.failed_files = stats.total_files
          /\ stats.batch_count = CallsFor(folder_name)
    /\ \A k \in DOMAIN stats_log :
          stats_log[k].loaded_files + stats_log[k].failed_files
              = stats_log[k].total_files

\* process_folder is about to return from a partition of three entries,
\* one of which did not decode, after one insert_many call.
C24_Witness ==
    /\ pc = "folder_end"
    /\ stats.total_files = 3
    /\ stats.failed_files = 1
    /\ stats.batch_count = 1

\* The total_files of the partitions whose process_folder has returned.
RECURSIVE SumTotalFiles(_)
SumTotalFiles(log) ==
    IF log = <<>> THEN 0
    ELSE log[1].total_files + SumTotalFiles(Tail(log))

\* C25 as stated: when every partition is done and the run has returned
\* True, its summary holds the totals of entries seen, of entries loaded and
\* of entries failed, each the sum of the partitions' counters.
C25_GlobalTotalsReported ==
    result = "True" =>
        /\ [name |-> "total_files", value |-> SumTotalFiles(stats_log)] \in summary_counts
        /\ [name |-> "total_loaded", value |-> SumLoadedFiles(stats_log)] \in summary_counts
        /\ [name |-> "total_failed", value |-> SumFailedFiles(stats_log)] \in summary_counts

\* C26: no insert_many call is made with an empty batch, and a partition
\* that has returned made as many calls as its decoded entries need at the
\* capacity and none more: none when no entry decoded, no extra one when
\* the decoded entries fill the batches exactly.
C26_NoEmptyBatchDispatched ==
    /\ \A j \in DOMAIN dispatched : Len(dispatched[j].batch) > 0
    /\ \A k \in DOMAIN stats_log :
          stats_log[k].batch_count = CeilDiv(stats_log[k].loaded_files, batch_size)

\* The run returned True after a partition none of whose entries decoded
\* and a partition whose two records filled one batch exactly; one
\* insert_many call was made in all.
C26_Witness ==
    /\ result = "True"
    /\ batch_size = 2
    /\ Len(dispatched) = 1
    /\ \E k \in DOMAIN stats_log :
          stats_log[k].loaded_files = 0 /\ stats_log[k].batch_count = 0
    /\ \E k \in DOMAIN stats_log :
          stats_log[k].loaded_files = 2 /\ stats_log[k].batch_count = 1

\* What load_json_fast returns for the entry process_folder is at.
json_data_now == load_json_fast(zip_file, archive[file_list[file_i]])

\* C27 as stated: in a turn of the loop (the entry is added to decode_log)
\* in which load_json_fast returns, the entry is counted in loaded_files exactly when the value returned is
\* truthy; a falsy value (None, an empty document) is counted in
\* failed_files and leaves the batch as it was.
C27_LoadedIffTruthy ==
    [][(decode_log' # decode_log /\ json_data_now.exc = "none") =>
          /\ (stats'.loaded_files = stats.loaded_files + 1)
                <=> truthy(json_data_now.value)
          /\ ~truthy(json_data_now.value) =>
                /\ stats'.failed_files = stats.failed_files + 1
                /\ batch_data' = batch_data
                /\ dispatched' = dispatched]_vars

\* The stats a partition returns when every insert_many call succeeds:
\* they follow from the entry list and the capacity.
StatsOf(partition) ==
    LET loaded == Len(DecodedOf(partition.files, partition.name))
    IN [total_files |-> Len(partition.files),
        loaded_files |-> loaded,
        failed_files |-> Len(partition.files) - loaded,
        batch_count |-> CeilDiv(loaded, batch_size)]

\* C28: a run that raised nothing and was not interrupted ends with True
\* whatever the insert_many calls did, and in the step that returns True
\* the stats of its partitions and the total it reports are those that follow from the archive and the
\* capacity alone, the same whether the store kept, rejected or never
\* received the records.
C28_StatisticsIgnoreWriteOutcomes ==
    [][/\ (pc' = "done" /\ discovered /\ caught = "none") => result = "True"
       /\ (result' = "True" /\ result # "True") =>
             LET structure == analyze_zip_structure(archive)
             IN /\ stats_log' = [k \in DOMAIN structure |-> StatsOf(structure[k])]
                /\ reported' = SumLoadedFiles(stats_log')]_vars

\* The run returned True and reported two documents after an insert_many
\* call that failed with both records of its batch, and nothing is stored.
C28_Witness ==
    /\ result = "True"
    /\ reported = 2
    /\ rejected = 2
    /\ store = {}

\* C29: the call after one that raised is the first call on the next
\* collection: no later step of the collection of the failed call is
\* attempted; and every index whose create_index call returned, those
\* created before a failed call on the same collection included, is in
\* the database.
C29_StepsAfterFailureSkipped ==
    \A i \in DOMAIN index_log :
        /\ (index_log[i].raised /\ i < Len(index_log)) =>
              index_log[i + 1].key = "_source_file"
        /\ (~index_log[i].raised /\ index_log[i].key # "find_one") =>
              [coll |-> index_log[i].coll, key |-> index_log[i].key] \in indexes

\* The second create_index call on a collection whose documents have the
\* business fields raised, and create_indexes went on to another
\* collection: the first index of the collection is there, and neither
\* the compound index nor a business index.
C29_Witness ==
    \E i \in DOMAIN index_log :
        /\ index_log[i].raised
        /\ index_log[i].key = "_source_folder"
        /\ i < Len(index_log)
        /\ index_log[i + 1].coll # index_log[i].coll
        /\ \E d \in docs_of(index_log[i].coll) : "factura_num" \in DOMAIN d
        /\ [coll |-> index_log[i].coll, key |-> "_source_file"] \in indexes
        /\ [coll |-> index_log[i].coll, key |-> IndexCompound] \notin indexes
        /\ [coll |-> index_log[i].coll, key |-> "factura_num"] \notin indexes

\* The step in which an exception or the user's interrupt ends the run.
Aborts == caught = "none" /\ caught' # "none"

\* C30: a step that ends the run inside process_folder goes to main's
\* finally clause; the records in batch_data that were not handed to
\* insert_many are not in the database; the documents stored before stay;
\* no index call has been made and no summary printed; and from then on no
\* entry is read, no batch dispatched, no partition returns stats, no
\* index is created and nothing is reported.
C30_AbortLeavesBatchUnwritten ==
    [][/\ (Aborts /\ pc \in {"entry", "bulk_full", "bulk_last"}) =>
             /\ pc' = "finally"
             /\ store \subseteq store'
             /\ pc = "entry" =>
                   \A k \in DOMAIN batch_data :
                       \A x \in store' : x.doc # batch_data[k]
             /\ index_log' = <<>>
             /\ indexes' = {}
             /\ reported' = -1
             /\ stats_log' = stats_log
       /\ caught # "none" =>
             /\ store' = store
             /\ dispatched' = dispatched
             /\ decode_log' = decode_log
             /\ stats_log' = stats_log
             /\ index_log' = index_log
             /\ indexes' = indexes
             /\ reported' = reported]_vars

\* The run was interrupted in the second partition after the first of its
\* two entries, a JSON object, was read into a batch of capacity 2: the
\* record of the first partition is stored, the record in the batch was
\* never dispatched, the last entry was never read, and there is no index
\* and no summary.
C30_Witness ==
    /\ pc = "done"
    /\ caught = "KeyboardInterrupt"
    /\ batch_size = 2
    /\ Len(archive) = 3
    /\ decode_log = <<1, 2>>
    /\ archive[2].kind = "dict"
    /\ archive[3].filename.dirs = archive[2].filename.dirs
    /\ Len(dispatched) = 1
    /\ dispatched[1].last
    /\ Cardinality(store) = 1
    /\ index_log = <<>>
    /\ reported = -1

====
